---- MODULE Spec2Model ----
(***************************************************************************)
(* Model of the grizzly_motion safety supervisor:                          *)
(*   MotionSafety   (motion_safety_node.cpp)  the five-state safety        *)
(*                  machine, its watchdog cycle and its event callbacks;   *)
(*   EncodersMonitor (encoders_monitor.cpp)   the encoder-failure          *)
(*                  detector and its health verdict.                       *)
(*                                                                         *)
(* Units.  Time is counted in hundredths of a second (ros::Duration(0.05)  *)
(* is 5, ros::Duration(4.0) is 400).  Wheel speeds are counted in          *)
(* hundredths of a rad/s (0.01 is 1, 0.5 is 50).  A default-constructed    *)
(* ros::Time is 0.                                                         *)
(*                                                                         *)
(* A callback reads ros::Time::now() several times; the model uses one     *)
(* reading per callback (the variable now), which only advances between    *)
(* callbacks.                                                              *)
(***************************************************************************)
EXTENDS Integers, Sequences, FiniteSets, TLC

(***************************************************************************)
(* Program constants.                                                      *)
(***************************************************************************)
starting_duration_ == 200                  \* ros::Duration(2.0)
WatchdogPeriod == 5                        \* createTimer(ros::Duration(0.05))
CommandFresh == 10                         \* ros::Duration(0.1), Stopped/Starting
MovingCommandLapse == 300                  \* ros::Duration(3.0), Moving
PendingCommandLapse == 100                 \* ros::Duration(1.0), PendingStopped
PrechargeLimit == 400                      \* ros::Duration(4.0), checkFaults
encoders_timeout == 11                     \* 0.11
encoder_speed_error_diff_threshold == 50   \* 0.5
encoder_fault_time_to_failure == 50        \* 0.5
MeasuredSmall == 1                         \* 0.01, detectFailedEncoderCandidate
NoFailedEncoder == 0 - 1                   \* failed_encoder_(-1)

(***************************************************************************)
(* Bounds of the model.                                                    *)
(***************************************************************************)
StartTime == 1000      \* ros::Time::now() when the node is constructed
MaxRate == 10          \* max_accel_ / radius_ per hundredth of a second
Speed == 100           \* the non-zero wheel speed of the inputs

\* The instants at which callbacks run, as offsets from StartTime: the start,
\* and an instant later than every duration the code compares (0.1, 0.11, 0.5,
\* 1.0, 2.0, 3.0 and 4.0 s).
Offsets == {0, PrechargeLimit + WatchdogPeriod}

Instants == {StartTime + o : o \in Offsets}

\* Instants of the command-lapse scenario: the start, one past the Starting
\* deadline (2.05 s), and one more than 3.0 s after that (5.1 s).
LapseInstants == {StartTime,
                  StartTime + starting_duration_ + WatchdogPeriod,
                  StartTime + starting_duration_ + MovingCommandLapse + 2 * WatchdogPeriod}

\* Instants of the encoder-failure scenario: the start, one past the Starting
\* deadline (2.05 s), and one more than 2.0 s and 0.5 s after that and more
\* than 4.0 s after the start (4.1 s).
EncoderInstants == {StartTime,
                    StartTime + starting_duration_ + WatchdogPeriod,
                    StartTime + 2 * (starting_duration_ + WatchdogPeriod)}

\* Instants of the restart scenario: the start, one past the Starting
\* deadline (2.05 s), one more than 3.0 s after that (5.1 s), and one past the
\* second Starting deadline (7.15 s).
RampInstants == {StartTime,
                 StartTime + starting_duration_ + WatchdogPeriod,
                 StartTime + starting_duration_ + MovingCommandLapse + 2 * WatchdogPeriod,
                 StartTime + 2 * starting_duration_ + MovingCommandLapse + 3 * WatchdogPeriod}

\* Number of watchdog periods of the start-up scenario.
StartupCycles == 42

StartupInstants == {StartTime + WatchdogPeriod * k : k \in 0 .. StartupCycles}

Wheels == 0 .. 3       \* front_left, front_right, rear_left, rear_right

Vec(a, b, c, d) == [w \in Wheels |-> CASE w = 0 -> a [] w = 1 -> b [] w = 2 -> c [] OTHER -> d]

Zero4 == Vec(0, 0, 0, 0)

AllSpeed == Vec(Speed, Speed, Speed, Speed)

\* Wheel-speed vectors of inbound drive commands.
CommandVectors == {Zero4, AllSpeed}

\* Wheel-speed vectors of encoder feedback: at rest, all wheels turning.
FeedbackVectors == {Zero4, AllSpeed}

\* Wheel-speed vectors of encoder feedback of the encoder-failure scenario:
\* at rest, front_left dead, front_right dead.
EncoderVectors == {Zero4, Vec(0, Speed, Speed, Speed), Vec(Speed, 0, Speed, Speed)}

\* Feedback with front_left turning backward and the other wheels at rest.
ReverseVector == Vec(0 - Speed, 0, 0, 0)

\* Wheel-speed vectors of encoder feedback of the first-evaluation scenario.
FirstVectors == {Zero4, ReverseVector}

Abs(x) == IF x < 0 THEN 0 - x ELSE x

Max(a, b) == IF a >= b THEN a ELSE b

Min(a, b) == IF a <= b THEN a ELSE b

\* A null boost::shared_ptr<Drive>.
NoDrive == [present |-> FALSE, stamp |-> 0, v |-> Zero4]

DriveMsg(t, vec) == [present |-> TRUE, stamp |-> t, v |-> vec]

\* A null boost::shared_ptr<RawStatus>.
NoStatus == [present |-> FALSE, stamp |-> 0, brk_det |-> FALSE, estop_reset |-> FALSE]

StatusMsg(t, pre, est) == [present |-> TRUE, stamp |-> t, brk_det |-> pre, estop_reset |-> est]

\* A DriveChangeLimiter before its first apply().
NoLimit == [init |-> FALSE, out |-> 0, t |-> 0]

VARIABLES
    now,                               \* ros::Time::now()
    state_,                            \* MotionSafety::state_
    fault_reason_,                     \* MotionSafety::fault_reason_
    last_commanded_movement_time_,     \* MotionSafety
    transition_to_moving_time_,        \* MotionSafety
    last_mcu_status_,                  \* MotionSafety
    last_non_precharge_time_,          \* MotionSafety
    accel_limiters_,                   \* MotionSafety, one limiter per wheel
    last_received_encoders_,           \* EncodersMonitor
    last_received_drive_,              \* EncodersMonitor
    time_of_last_nonsuspect_encoders_, \* EncodersMonitor
    failed_encoder_,                   \* EncodersMonitor
    safe_cmd_drive,                    \* topic safe_cmd_drive, queue size 1
    estop_pub,                         \* values the last callback published on mcu/estop
    safe_pub,                          \* message it published on safe_cmd_drive
    wd,                                \* locals of the last callback, if watchdogCallback
    last_clear_status_stamp,           \* history: stamp of the last status
                                       \* received with ERROR_BRK_DET clear
    last_clean_sample_stamp            \* history: stamp of the last feedback
                                       \* that was no failure candidate against
                                       \* the command present at its arrival

vars == <<now, state_, fault_reason_, last_commanded_movement_time_,
          transition_to_moving_time_, last_mcu_status_, last_non_precharge_time_,
          accel_limiters_, last_received_encoders_, last_received_drive_,
          time_of_last_nonsuspect_encoders_, failed_encoder_, safe_cmd_drive,
          estop_pub, safe_pub, wd, last_clear_status_stamp,
          last_clean_sample_stamp>>

(***************************************************************************)
(* grizzly_msgs helpers used by both classes.                              *)
(***************************************************************************)
StationaryEpsilon == 0

\* grizzly_msgs::isStationary: no wheel speed exceeds the stationary epsilon.
isStationary(vec) == \A w \in Wheels : Abs(vec[w]) <= StationaryEpsilon

(***************************************************************************)
(* EncodersMonitor                                                         *)
(***************************************************************************)

\* Eigen maxCoeff: the largest coefficient.
maxCoeff(vec) == CHOOSE m \in {vec[w] : w \in Wheels} : \A w \in Wheels : vec[w] <= m

\* Eigen maxCoeff(&index): the first index holding the largest coefficient.
maxCoeffIndex(vec) ==
    CHOOSE i \in Wheels : /\ vec[i] = maxCoeff(vec)
                          /\ \A j \in Wheels : vec[j] = maxCoeff(vec) => i <= j

\* EncodersMonitor::detectFailedEncoderCandidate.  found is the return value,
\* candidate the index written through the pointer.
detectFailedEncoderCandidate(measured, commanded) ==
    LET wheelSpeedError == [w \in Wheels |-> Abs(measured[w] - commanded[w])]
        candidate       == maxCoeffIndex(wheelSpeedError)
        max_error       == maxCoeff(wheelSpeedError)
        zeroed          == [wheelSpeedError EXCEPT ![candidate] = 0]
        max_error_diff  == max_error - maxCoeff(zeroed)
    IN  [candidate |-> candidate,
         found |-> IF measured[candidate] > MeasuredSmall THEN FALSE
                   ELSE IF max_error_diff < encoder_speed_error_diff_threshold THEN FALSE
                   ELSE TRUE]

\* Mutant of detectFailedEncoder: a clean reading clears failed_encoder_.
detectFailedEncoderClearing(enc, drv, tlast, failed) ==
    IF ~enc.present \/ ~drv.present
    THEN [ret |-> FALSE, tlast |-> tlast, failed |-> failed]
    ELSE LET c == detectFailedEncoderCandidate(enc.v, drv.v)
         IN  IF c.found
             THEN IF enc.stamp - tlast > encoder_fault_time_to_failure
                  THEN [ret |-> TRUE, tlast |-> tlast, failed |-> c.candidate]
                  ELSE [ret |-> FALSE, tlast |-> tlast, failed |-> failed]
             ELSE [ret |-> FALSE, tlast |-> enc.stamp, failed |-> NoFailedEncoder]

\* EncodersMonitor::detectFailedEncoder on the monitor's fields: ret is the
\* return value, tlast and failed the fields after the call.
detectFailedEncoder(enc, drv, tlast, failed) ==
    IF ~enc.present \/ ~drv.present
    THEN [ret |-> FALSE, tlast |-> tlast, failed |-> failed]
    ELSE LET c == detectFailedEncoderCandidate(enc.v, drv.v)
         IN  IF c.found
             THEN IF enc.stamp - tlast > encoder_fault_time_to_failure
                  THEN [ret |-> TRUE, tlast |-> tlast, failed |-> c.candidate]
                  ELSE [ret |-> FALSE, tlast |-> tlast, failed |-> failed]
             ELSE [ret |-> FALSE, tlast |-> enc.stamp, failed |-> failed]

\* age(msg): ros::Time::now() - msg->header.stamp.
age(t, msg) == t - msg.stamp

\* Mutant of EncodersOk: the age of the feedback is not tested.
EncodersOkNoTimeout(enc, drv, tlast, failed, t) ==
    IF ~enc.present
    THEN [ret |-> FALSE, tlast |-> tlast, failed |-> failed]
    ELSE IF ~drv.present \/ age(t, drv) > encoders_timeout
    THEN [ret |-> TRUE, tlast |-> tlast, failed |-> failed]
    ELSE LET d == detectFailedEncoder(enc, drv, tlast, failed)
         IN  [ret |-> ~d.ret, tlast |-> d.tlast, failed |-> d.failed]

\* EncodersMonitor::ok at time t.
EncodersOk(enc, drv, tlast, failed, t) ==
    IF ~enc.present \/ age(t, enc) > encoders_timeout
    THEN [ret |-> FALSE, tlast |-> tlast, failed |-> failed]
    ELSE IF ~drv.present \/ age(t, drv) > encoders_timeout
    THEN [ret |-> TRUE, tlast |-> tlast, failed |-> failed]
    ELSE LET d == detectFailedEncoder(enc, drv, tlast, failed)
         IN  [ret |-> ~d.ret, tlast |-> d.tlast, failed |-> d.failed]

\* EncodersMonitor::moving.
EncodersMoving(enc) == enc.present /\ ~isStationary(enc.v)

(***************************************************************************)
(* MotionSafety                                                            *)
(***************************************************************************)
PrechargeReason == "Precharge persisted for more than four seconds."

EncoderReason == "Encoder failure detected."

\* MotionSafety::isEstopped.
isEstopped(status) == status.present /\ status.estop_reset

\* Mutant of checkFaults: the precharge test is missing.
checkFaultsNoPrecharge(st, reason, status, lnpt, enc, drv, tlast, failed) ==
    LET lnpt1 == IF status.present /\ ~status.brk_det THEN status.stamp ELSE lnpt
        d     == detectFailedEncoder(enc, drv, tlast, failed)
    IN  [state  |-> IF d.ret THEN "Fault" ELSE st,
         reason |-> IF d.ret THEN EncoderReason ELSE reason,
         lnpt   |-> lnpt1,
         tlast  |-> d.tlast,
         failed |-> d.failed,
         pubs   |-> IF d.ret THEN <<TRUE>> ELSE << >>]

\* Mutant of checkFaults: the encoders fault test is missing.
checkFaultsNoEncoder(st, reason, status, lnpt, enc, drv, tlast, failed) ==
    LET lnpt1 == IF status.present /\ ~status.brk_det THEN status.stamp ELSE lnpt
        pre   == status.present /\ status.stamp - lnpt1 > PrechargeLimit
    IN  [state  |-> IF pre THEN "Fault" ELSE st,
         reason |-> IF pre THEN PrechargeReason ELSE reason,
         lnpt   |-> lnpt1,
         tlast  |-> tlast,
         failed |-> failed,
         pubs   |-> IF pre THEN <<TRUE>> ELSE << >>]

\* MotionSafety::checkFaults.  Each setFault publishes true on mcu/estop,
\* sets state_ to Fault and stores the reason; pubs lists the publications.
checkFaults(st, reason, status, lnpt, enc, drv, tlast, failed) ==
    LET lnpt1 == IF status.present /\ ~status.brk_det THEN status.stamp ELSE lnpt
        pre   == status.present /\ status.stamp - lnpt1 > PrechargeLimit
        d     == detectFailedEncoder(enc, drv, tlast, failed)
    IN  [state  |-> IF pre \/ d.ret THEN "Fault" ELSE st,
         reason |-> IF d.ret THEN EncoderReason
                    ELSE IF pre THEN PrechargeReason ELSE reason,
         lnpt   |-> lnpt1,
         tlast  |-> d.tlast,
         failed |-> d.failed,
         pubs   |-> (IF pre THEN <<TRUE>> ELSE << >>) \o (IF d.ret THEN <<TRUE>> ELSE << >>)]

\* watchdogCallback, the block "if (state_ == MotionStates::Stopped)".
StoppedStep(st, t, lastcmd, estopped) ==
    IF st = "Stopped" /\ t - lastcmd < CommandFresh /\ ~estopped
    THEN "Starting" ELSE st

\* Mutant of StoppedStepDeadline: the starting duration is not added.
StoppedStepDeadlineNow(st, t, lastcmd, estopped, deadline) ==
    IF st = "Stopped" /\ t - lastcmd < CommandFresh /\ ~estopped
    THEN t ELSE deadline

\* transition_to_moving_time_ after the Stopped block.
StoppedStepDeadline(st, t, lastcmd, estopped, deadline) ==
    IF st = "Stopped" /\ t - lastcmd < CommandFresh /\ ~estopped
    THEN t + starting_duration_ ELSE deadline

\* Mutant of StartingStep: the command-lapse test fires on any age.
StartingStepLapsed(st, t, deadline, lastcmd, encoders_ok, motor_controllers_ok, estopped) ==
    IF st # "Starting" THEN st
    ELSE LET s1 == IF t > deadline THEN "Moving" ELSE st
             s2 == IF t - lastcmd >= 0 THEN "Stopped" ELSE s1
         IN  IF ~encoders_ok \/ ~motor_controllers_ok \/ estopped
             THEN "PendingStopped" ELSE s2

\* Mutant of StartingStep: the deadline test comes last and wins.
StartingStepDeadlineLast(st, t, deadline, lastcmd, encoders_ok, motor_controllers_ok, estopped) ==
    IF st # "Starting" THEN st
    ELSE LET s1 == IF ~encoders_ok \/ ~motor_controllers_ok \/ estopped
                   THEN "PendingStopped" ELSE st
             s2 == IF t - lastcmd > CommandFresh THEN "Stopped" ELSE s1
         IN  IF t > deadline THEN "Moving" ELSE s2

\* watchdogCallback, the block "if (state_ == MotionStates::Starting)": three
\* assignments in sequence, the last one that applies wins.
StartingStep(st, t, deadline, lastcmd, encoders_ok, motor_controllers_ok, estopped) ==
    IF st # "Starting" THEN st
    ELSE LET s1 == IF t > deadline THEN "Moving" ELSE st
             s2 == IF t - lastcmd > CommandFresh THEN "Stopped" ELSE s1
         IN  IF ~encoders_ok \/ ~motor_controllers_ok \/ estopped
             THEN "PendingStopped" ELSE s2

\* Mutant of MovingStep: the health test is missing.
MovingStepNoHealth(st, t, lastcmd, encoders_ok, motor_controllers_ok) ==
    IF st = "Moving" /\ t - lastcmd > MovingCommandLapse THEN "Stopped" ELSE st

\* watchdogCallback, the block "if (state_ == MotionStates::Moving)": two
\* assignments in sequence, the last one that applies wins.
MovingStep(st, t, lastcmd, encoders_ok, motor_controllers_ok) ==
    IF st # "Moving" THEN st
    ELSE LET s1 == IF ~encoders_ok \/ ~motor_controllers_ok THEN "PendingStopped" ELSE st
         IN  IF t - lastcmd > MovingCommandLapse THEN "Stopped" ELSE s1

\* Mutant of PendingStep: the estop-latched bit is not required.
PendingStepNoEstop(st, t, lastcmd, moving, estopped) ==
    IF st = "PendingStopped" /\ ~moving /\ t - lastcmd > PendingCommandLapse
    THEN "Stopped" ELSE st

\* watchdogCallback, the block "if (state_ == MotionStates::PendingStopped)".
PendingStep(st, t, lastcmd, moving, estopped) ==
    IF st = "PendingStopped" /\ ~moving /\ t - lastcmd > PendingCommandLapse /\ estopped
    THEN "Stopped" ELSE st

\* Mutant of EstopData: estop.data is computed from the final state.
EstopDataFinal(atPending, final) == final \in {"PendingStopped", "Fault"}

\* estop.data at the end of watchdogCallback: set in the PendingStopped block
\* (before its exit test) and in the Fault block.  atPending is the state on
\* reaching the PendingStopped block, final the state after it.
EstopData(atPending, final) == atPending = "PendingStopped" \/ final = "Fault"

\* DriveChangeLimiter::apply for one wheel: the first call passes the command
\* through, later calls clamp it to previous output +- max_rate * dt.
LimiterApply(lim, commanded, t) ==
    IF ~lim.init
    THEN [init |-> TRUE, out |-> commanded, t |-> t]
    ELSE LET max_delta == MaxRate * (t - lim.t)
         IN  [init |-> TRUE,
              out  |-> Max(lim.out - max_delta, Min(commanded, lim.out + max_delta)),
              t    |-> t]

\* driveCallback: the limiters after the call (applied only in Moving).
DriveLimiters(st, cmd, lims) ==
    IF st = "Moving"
    THEN [w \in Wheels |-> LimiterApply(lims[w], cmd.v[w], cmd.stamp)]
    ELSE lims

\* Mutant of DriveSafe: the limiters also run in Starting.
DriveSafeInStarting(st, cmd, lims) ==
    DriveMsg(cmd.stamp,
             IF st \in {"Moving", "Starting"}
             THEN [w \in Wheels |-> LimiterApply(lims[w], cmd.v[w], cmd.stamp).out]
             ELSE Zero4)

\* driveCallback: drive_safe, a default-constructed Drive with the command's
\* header, filled by the limiters only in Moving.
DriveSafe(st, cmd, lims) ==
    DriveMsg(cmd.stamp,
             IF st = "Moving"
             THEN [w \in Wheels |-> LimiterApply(lims[w], cmd.v[w], cmd.stamp).out]
             ELSE Zero4)

\* driveCallback: last_commanded_movement_time_ after the call.
DriveMovementTime(cmd, lastcmd) == IF ~isStationary(cmd.v) THEN cmd.stamp ELSE lastcmd

\* Mutant of EstopState: the Fault guard is missing.
EstopStateUnguarded(st, data) == IF data THEN "PendingStopped" ELSE st

\* estopCallback: state_ after the call.
EstopState(st, data) == IF data /\ st # "Fault" THEN "PendingStopped" ELSE st

\* Mutant of EstopPublished: every message is forwarded.
EstopPublishedAlways(data) == <<data>>

\* estopCallback: what it publishes on mcu/estop.
EstopPublished(data) == IF data THEN <<TRUE>> ELSE << >>

(***************************************************************************)
(* The state after construction.                                           *)
(***************************************************************************)
NoCycle == [ran |-> FALSE, encoders_ok |-> FALSE, motor_controllers_ok |-> FALSE]

Init ==
    /\ now = StartTime
    /\ state_ = "Stopped"
    /\ fault_reason_ = ""
    /\ last_commanded_movement_time_ = 0
    /\ transition_to_moving_time_ = 0
    /\ last_mcu_status_ = NoStatus
    /\ last_non_precharge_time_ = 0
    /\ accel_limiters_ = [w \in Wheels |-> NoLimit]
    /\ last_received_encoders_ = NoDrive
    /\ last_received_drive_ = NoDrive
    /\ time_of_last_nonsuspect_encoders_ = 0
    /\ failed_encoder_ = NoFailedEncoder
    /\ safe_cmd_drive = NoDrive
    /\ estop_pub = << >>
    /\ safe_pub = NoDrive
    /\ wd = NoCycle
    /\ last_clear_status_stamp = 0
    /\ last_clean_sample_stamp = 0

(***************************************************************************)
(* Actions: the passage of time and one action per callback.               *)
(***************************************************************************)

\* Time passes between two callbacks.  A queued safe_cmd_drive message is
\* delivered by the spinner before the clock reaches the next instant.
Advance(t) ==
    /\ t > now
    /\ ~safe_cmd_drive.present
    /\ now' = t
    /\ wd' = NoCycle
    /\ estop_pub' = << >>
    /\ safe_pub' = NoDrive
    /\ UNCHANGED <<state_, fault_reason_, last_commanded_movement_time_,
                   transition_to_moving_time_, last_mcu_status_, last_non_precharge_time_,
                   accel_limiters_, last_received_encoders_, last_received_drive_,
                   time_of_last_nonsuspect_encoders_, failed_encoder_, safe_cmd_drive,
                   last_clear_status_stamp,
                   last_clean_sample_stamp>>

\* MotionSafety::watchdogCallback; motor_ok is MotorsMonitor::ok().
watchdogCallback(motor_ok) ==
    LET cf       == checkFaults(state_, fault_reason_, last_mcu_status_,
                                last_non_precharge_time_, last_received_encoders_,
                                last_received_drive_, time_of_last_nonsuspect_encoders_,
                                failed_encoder_)
        okr      == EncodersOk(last_received_encoders_, last_received_drive_,
                               cf.tlast, cf.failed, now)
        estopped == isEstopped(last_mcu_status_)
        lastcmd  == last_commanded_movement_time_
        s1       == StoppedStep(cf.state, now, lastcmd, estopped)
        deadline == StoppedStepDeadline(cf.state, now, lastcmd, estopped,
                                        transition_to_moving_time_)
        s2       == StartingStep(s1, now, deadline, lastcmd, okr.ret, motor_ok, estopped)
        s3       == MovingStep(s2, now, lastcmd, okr.ret, motor_ok)
        s4       == PendingStep(s3, now, lastcmd,
                                EncodersMoving(last_received_encoders_), estopped)
    IN  /\ state_' = s4
        /\ fault_reason_' = cf.reason
        /\ last_non_precharge_time_' = cf.lnpt
        /\ transition_to_moving_time_' = deadline
        /\ time_of_last_nonsuspect_encoders_' = okr.tlast
        /\ failed_encoder_' = okr.failed
        /\ estop_pub' = cf.pubs \o <<EstopData(s3, s4)>>
        /\ safe_pub' = NoDrive
        /\ wd' = [ran |-> TRUE, encoders_ok |-> okr.ret, motor_controllers_ok |-> motor_ok]
        /\ UNCHANGED <<now, last_commanded_movement_time_, last_mcu_status_,
                       accel_limiters_, last_received_encoders_, last_received_drive_,
                       safe_cmd_drive, last_clear_status_stamp,
                   last_clean_sample_stamp>>

\* MotionSafety::estopCallback.
estopCallback(data) ==
    /\ state_' = EstopState(state_, data)
    /\ estop_pub' = EstopPublished(data)
    /\ safe_pub' = NoDrive
    /\ wd' = NoCycle
    /\ UNCHANGED <<now, fault_reason_, last_commanded_movement_time_,
                   transition_to_moving_time_, last_mcu_status_, last_non_precharge_time_,
                   accel_limiters_, last_received_encoders_, last_received_drive_,
                   time_of_last_nonsuspect_encoders_, failed_encoder_, safe_cmd_drive,
                   last_clear_status_stamp,
                   last_clean_sample_stamp>>

\* MotionSafety::driveCallback for a command stamped with the current time.
\* The published safe command waits in the safe_cmd_drive queue (size 1).
driveCallback(vec) ==
    LET cmd == DriveMsg(now, vec)
    IN  /\ last_commanded_movement_time_' = DriveMovementTime(cmd, last_commanded_movement_time_)
        /\ accel_limiters_' = DriveLimiters(state_, cmd, accel_limiters_)
        /\ safe_pub' = DriveSafe(state_, cmd, accel_limiters_)
        /\ safe_cmd_drive' = safe_pub'
        /\ estop_pub' = << >>
        /\ wd' = NoCycle
        /\ UNCHANGED <<now, state_, fault_reason_, transition_to_moving_time_,
                       last_mcu_status_, last_non_precharge_time_,
                       last_received_encoders_, last_received_drive_,
                       time_of_last_nonsuspect_encoders_, failed_encoder_,
                       last_clear_status_stamp,
                   last_clean_sample_stamp>>

\* MotionSafety::mcuStatusCallback for a status stamped with the current time.
mcuStatusCallback(pre, est) ==
    /\ last_mcu_status_' = StatusMsg(now, pre, est)
    /\ last_clear_status_stamp' = IF pre THEN last_clear_status_stamp ELSE now
    /\ estop_pub' = << >>
    /\ safe_pub' = NoDrive
    /\ wd' = NoCycle
    /\ UNCHANGED <<now, state_, fault_reason_, last_commanded_movement_time_,
                   transition_to_moving_time_, last_non_precharge_time_,
                   accel_limiters_, last_received_encoders_, last_received_drive_,
                   time_of_last_nonsuspect_encoders_, failed_encoder_, safe_cmd_drive,
                   last_clean_sample_stamp>>

\* EncodersMonitor::encodersCallback for feedback stamped with the current time.
encodersCallback(vec) ==
    /\ last_received_encoders_' = DriveMsg(now, vec)
    /\ last_clean_sample_stamp' =
           IF /\ last_received_drive_.present
              /\ ~detectFailedEncoderCandidate(vec, last_received_drive_.v).found
           THEN now ELSE last_clean_sample_stamp
    /\ estop_pub' = << >>
    /\ safe_pub' = NoDrive
    /\ wd' = NoCycle
    /\ UNCHANGED <<now, state_, fault_reason_, last_commanded_movement_time_,
                   transition_to_moving_time_, last_mcu_status_, last_non_precharge_time_,
                   accel_limiters_, last_received_drive_,
                   time_of_last_nonsuspect_encoders_, failed_encoder_, safe_cmd_drive,
                   last_clear_status_stamp>>

\* EncodersMonitor::driveCallback: delivery of the queued safe_cmd_drive message.
encodersDriveCallback ==
    /\ safe_cmd_drive.present
    /\ last_received_drive_' = safe_cmd_drive
    /\ safe_cmd_drive' = NoDrive
    /\ estop_pub' = << >>
    /\ safe_pub' = NoDrive
    /\ wd' = NoCycle
    /\ UNCHANGED <<now, state_, fault_reason_, last_commanded_movement_time_,
                   transition_to_moving_time_, last_mcu_status_, last_non_precharge_time_,
                   accel_limiters_, last_received_encoders_,
                   time_of_last_nonsuspect_encoders_, failed_encoder_,
                   last_clear_status_stamp,
                   last_clean_sample_stamp>>

Next ==
    \/ \E t \in Instants : Advance(t)
    \/ \E motor_ok \in BOOLEAN : watchdogCallback(motor_ok)
    \/ \E data \in BOOLEAN : estopCallback(data)
    \/ \E vec \in CommandVectors : driveCallback(vec)
    \/ \E pre \in BOOLEAN, est \in BOOLEAN : mcuStatusCallback(pre, est)
    \/ \E vec \in FeedbackVectors : encodersCallback(vec)
    \/ encodersDriveCallback

Spec == Init /\ [][Next]_vars

(***************************************************************************)
(* The command-lapse scenario: the same callbacks over three instants, with *)
(* moving commands, feedback at rest, no precharge bit and no user estop,    *)
(* so that Moving can outlive its last command by more than 3.0 s.          *)
(***************************************************************************)
NextLapse ==
    \/ \E t \in LapseInstants : Advance(t)
    \/ \E motor_ok \in BOOLEAN : watchdogCallback(motor_ok)
    \/ driveCallback(AllSpeed)
    \/ \E est \in BOOLEAN : mcuStatusCallback(FALSE, est)
    \/ encodersCallback(Zero4)
    \/ encodersDriveCallback

SpecLapse == Init /\ [][NextLapse]_vars

(***************************************************************************)
(* The encoder-failure scenario: the same callbacks over three instants,    *)
(* with moving commands, every feedback vector, controller statuses that    *)
(* carry only the precharge bit, healthy motor controllers and no user      *)
(* estop, so that Moving is reached and a dead wheel is then observed.      *)
(***************************************************************************)
NextEncoders ==
    \/ \E t \in EncoderInstants : Advance(t)
    \/ watchdogCallback(TRUE)
    \/ driveCallback(AllSpeed)
    \/ \E pre \in BOOLEAN : mcuStatusCallback(pre, FALSE)
    \/ \E vec \in EncoderVectors : encodersCallback(vec)
    \/ encodersDriveCallback

SpecEncoders == Init /\ [][NextEncoders]_vars

(***************************************************************************)
(* The first-evaluation scenario: the same callbacks over the two instants  *)
(* of Spec, with feedback that is at rest or shows one wheel turning        *)
(* backward, statuses that carry only the precharge bit, healthy motor      *)
(* controllers and no user estop, so that the first reading the detector    *)
(* evaluates and the first status a cycle sees can be suspect ones.         *)
(***************************************************************************)
NextFirst ==
    \/ \E t \in Instants : Advance(t)
    \/ watchdogCallback(TRUE)
    \/ \E vec \in CommandVectors : driveCallback(vec)
    \/ \E pre \in BOOLEAN : mcuStatusCallback(pre, FALSE)
    \/ \E vec \in FirstVectors : encodersCallback(vec)
    \/ encodersDriveCallback

SpecFirst == Init /\ [][NextFirst]_vars

(***************************************************************************)
(* The restart scenario: the same callbacks over four instants, with moving *)
(* commands, feedback at rest, healthy motor controllers, no status and no  *)
(* user estop, so that Moving is left on a command lapse and entered again. *)
(***************************************************************************)
NextRamp ==
    \/ \E t \in RampInstants : Advance(t)
    \/ watchdogCallback(TRUE)
    \/ driveCallback(AllSpeed)
    \/ encodersCallback(Zero4)
    \/ encodersDriveCallback

SpecRamp == Init /\ [][NextRamp]_vars

(***************************************************************************)
(* The start-up scenario: the timer fires every watchdog period; between    *)
(* two cycles a moving command arrives, its safe command is delivered to    *)
(* the encoders monitor, fresh clean feedback arrives and so does a         *)
(* controller status with no error bit; the motor controllers are healthy   *)
(* and no user estop arrives.  ros::spin runs every queued callback, so the *)
(* scenario is weakly fair.                                                 *)
(***************************************************************************)
StartupDrive ==
    /\ ~wd.ran
    /\ last_commanded_movement_time_ # now
    /\ driveCallback(AllSpeed)

StartupDelivery ==
    /\ ~wd.ran
    /\ encodersDriveCallback

StartupEncoders ==
    /\ ~wd.ran
    /\ ~(last_received_encoders_.present /\ last_received_encoders_.stamp = now)
    /\ \E vec \in FeedbackVectors : encodersCallback(vec)

StartupStatus ==
    /\ ~wd.ran
    /\ ~(last_mcu_status_.present /\ last_mcu_status_.stamp = now)
    /\ mcuStatusCallback(FALSE, FALSE)

StartupCycle ==
    /\ ~wd.ran
    /\ last_commanded_movement_time_ = now
    /\ last_received_encoders_.present /\ last_received_encoders_.stamp = now
    /\ last_mcu_status_.present /\ last_mcu_status_.stamp = now
    /\ ~safe_cmd_drive.present
    /\ watchdogCallback(TRUE)

StartupTick ==
    /\ wd.ran
    /\ now + WatchdogPeriod \in StartupInstants
    /\ Advance(now + WatchdogPeriod)

NextStartup ==
    \/ StartupDrive
    \/ StartupDelivery
    \/ StartupEncoders
    \/ StartupStatus
    \/ StartupCycle
    \/ StartupTick

SpecStartup == Init /\ [][NextStartup]_vars /\ WF_vars(NextStartup)

(***************************************************************************)
(* Properties.  A step is a watchdog cycle iff wd'.ran, a drive command    *)
(* iff safe_pub'.present; every other action clears both.                  *)
(***************************************************************************)
\* estop.data published at the end of the last watchdog cycle.
EstopOut == estop_pub[Len(estop_pub)]

\* The three conditions of the PendingStopped exit, on the current inputs.
ExitGuard ==
    /\ ~EncodersMoving(last_received_encoders_)
    /\ now - last_commanded_movement_time_ > PendingCommandLapse
    /\ isEstopped(last_mcu_status_)

\* C1: once the safety state is Fault it is Fault after every later step
\* (watchdog cycle, user estop true or false, drive command, encoder feedback,
\* controller status, passage of time).
C1_FaultTerminal == [][state_ = "Fault" => state_' = "Fault"]_vars

\* A user estop with value true has arrived in Fault and the state is Fault.
C1_Witness == state_ = "Fault" /\ ~wd.ran /\ estop_pub = <<TRUE>>

\* C2: a drive command that arrives while the state is not Moving is answered
\* with a safe drive command whose four wheel speeds are zero; a non-zero
\* wheel speed is emitted only while the state is Moving.
C2_ZeroUnlessMoving ==
    [][safe_pub'.present =>
          /\ (state_ # "Moving" => safe_pub'.v = Zero4)
          /\ (safe_pub'.v # Zero4 => state_ = "Moving")]_vars

\* A moving command has arrived in Starting and was answered with zeros.
C2_Witness ==
    /\ state_ = "Starting"
    /\ safe_pub.present /\ safe_pub.v = Zero4
    /\ last_commanded_movement_time_ = safe_pub.stamp

\* C3: a user estop with value true publishes estop true at once and sets the
\* state to PendingStopped unless it is Fault, which stays Fault; a user
\* estop with value false publishes nothing and changes no state.
C3_UserEstop ==
    [][\A data \in BOOLEAN :
          estopCallback(data) =>
              IF data
              THEN /\ estop_pub' = <<TRUE>>
                   /\ state_' = IF state_ = "Fault" THEN "Fault" ELSE "PendingStopped"
              ELSE /\ estop_pub' = << >>
                   /\ state_' = state_]_vars

\* A user estop with value true has arrived after a Stopped -> Starting
\* transition whose deadline is still ahead, and the state is PendingStopped.
C3_Witness ==
    /\ state_ = "PendingStopped" /\ ~wd.ran /\ estop_pub = <<TRUE>>
    /\ transition_to_moving_time_ > now

\* C4: Moving is entered only from Starting and only in a cycle whose time is
\* later than the recorded deadline; the deadline is recorded as entry time +
\* starting_duration when Starting is entered, which happens only from
\* Stopped, and is kept while the state is Starting.
C4_MovingAfterDeadline ==
    [][/\ (state_' = "Moving" /\ state_ # "Moving" =>
              state_ = "Starting" /\ now' > transition_to_moving_time_)
       /\ (state_' = "Starting" /\ state_ # "Starting" =>
              state_ = "Stopped" /\ transition_to_moving_time_' = now' + starting_duration_)
       /\ (state_ = "Starting" /\ state_' = "Starting" =>
              transition_to_moving_time_' = transition_to_moving_time_)]_vars

\* A cycle has just put the machine in Moving.
C4_Witness == state_ = "Moving" /\ wd.ran /\ now > transition_to_moving_time_

\* C5: in the start-up scenario (moving commands fresh at every cycle, no
\* estop-latched bit, no user estop, no fault, encoders and motors healthy)
\* the first cycle takes Stopped to Starting, every later cycle leaves the
\* state in Starting or Moving, a cycle ends in Moving exactly when its time
\* is past the deadline, and Moving is eventually reached.
C5_StartupReachesMoving ==
    /\ [][wd'.ran =>
             /\ (state_ = "Stopped" => state_' = "Starting")
             /\ state_' \in {"Starting", "Moving"}
             /\ (state_' = "Moving" <=> now' > transition_to_moving_time_')]_vars
    /\ <>(state_ = "Moving")

\* The start-up scenario has reached Moving at the first cycle past the deadline.
C5_Witness ==
    /\ state_ = "Moving" /\ wd.ran
    /\ now = transition_to_moving_time_ + WatchdogPeriod

\* C6: a cycle that finds the state Moving (no fault raised) with encoders_ok
\* false or motor_ok false ends in PendingStopped and publishes estop true.
C6_MovingUnhealthy ==
    [][(/\ wd'.ran
        /\ state_ = "Moving"
        /\ state_' # "Fault"
        /\ (~wd'.encoders_ok \/ ~wd'.motor_controllers_ok))
       => (state_' = "PendingStopped" /\ estop_pub'[Len(estop_pub')])]_vars

\* C7: a cycle that starts in PendingStopped ends in PendingStopped, Stopped
\* or Fault; unless it ends in Fault, it ends in Stopped iff the encoders
\* report not moving, the last moving command is more than 1.0 s old and the
\* estop-latched bit is set; no other step leaves PendingStopped.
C7_PendingExit ==
    [][state_ = "PendingStopped" =>
          /\ state_' \in {"PendingStopped", "Stopped", "Fault"}
          /\ (~wd'.ran => state_' = "PendingStopped")
          /\ (wd'.ran /\ state_' # "Fault" => (state_' = "Stopped" <=> ExitGuard))]_vars

\* A cycle published estop true and ended in Stopped: it left PendingStopped.
C7_Witness == state_ = "Stopped" /\ wd.ran /\ EstopOut /\ ExitGuard

\* C8 as stated: the estop value published at the end of a cycle is true iff
\* the state after the cycle is PendingStopped or Fault.
C8_EstopIffFinalState ==
    wd.ran => (EstopOut <=> state_ \in {"PendingStopped", "Fault"})

\* C8 amended: the published value is true whenever the cycle ends in
\* PendingStopped or Fault, and also in the cycle that leaves PendingStopped
\* for Stopped; it is true in no other case.
C8_EstopAmended ==
    [][wd'.ran =>
          /\ (state_' \in {"PendingStopped", "Fault"} => estop_pub'[Len(estop_pub')])
          /\ (state_ = "PendingStopped" /\ state_' = "Stopped" => estop_pub'[Len(estop_pub')])
          /\ (estop_pub'[Len(estop_pub')] /\ state_' \notin {"PendingStopped", "Fault"}
                 => state_' = "Stopped" /\ ExitGuard')]_vars

\* A cycle ended in Stopped and published estop true.
C8_Witness == wd.ran /\ state_ = "Stopped" /\ EstopOut

\* The precharge bit has been set for more than 4.0 s: the latest status has
\* the bit set and is stamped more than 4.0 s after the last status received
\* with the bit clear.
PrechargePersisted ==
    /\ last_mcu_status_.present /\ last_mcu_status_.brk_det
    /\ last_clear_status_stamp > 0
    /\ last_mcu_status_.stamp - last_clear_status_stamp > PrechargeLimit

\* The encoder check of a cycle on the current inputs reports a failure.
EncoderFailureNow ==
    detectFailedEncoder(last_received_encoders_, last_received_drive_,
                        time_of_last_nonsuspect_encoders_, failed_encoder_).ret

\* C9 as stated: a cycle that starts outside Fault with the precharge bit
\* persisted ends in Fault with the precharge reason and publishes estop true.
C9_PrechargeReason ==
    [][wd'.ran /\ state_ # "Fault" /\ PrechargePersisted =>
          /\ state_' = "Fault"
          /\ fault_reason_' = PrechargeReason
          /\ estop_pub'[1]]_vars

\* C9 amended: such a cycle ends in Fault and publishes estop true; the
\* reason is the precharge text unless the encoder check of the same cycle
\* reports a failure, and then it is the encoder text.
C9_PrechargeFault ==
    [][wd'.ran /\ state_ # "Fault" /\ PrechargePersisted =>
          /\ state_' = "Fault"
          /\ estop_pub'[1]
          /\ fault_reason_' = IF EncoderFailureNow THEN EncoderReason ELSE PrechargeReason]_vars

\* A cycle has raised the precharge fault after a clear status 4.05 s earlier.
C9_Witness ==
    /\ wd.ran /\ state_ = "Fault" /\ fault_reason_ = PrechargeReason
    /\ PrechargePersisted
    /\ last_non_precharge_time_ = last_clear_status_stamp

\* C10: a cycle that evaluates feedback in which wheel i is the failure
\* candidate, stamped more than fault_time_to_failure after the last clean
\* reading, sets failed_encoder_ to i; once set, failed_encoder_ is never
\* cleared by any step.
C10_EncoderLatch ==
    [][/\ (failed_encoder_ # NoFailedEncoder => failed_encoder_' # NoFailedEncoder)
       /\ (/\ wd'.ran
           /\ last_received_encoders_.present /\ last_received_drive_.present
           /\ detectFailedEncoderCandidate(last_received_encoders_.v,
                                           last_received_drive_.v).found
           /\ last_received_encoders_.stamp - time_of_last_nonsuspect_encoders_
                  > encoder_fault_time_to_failure
           => failed_encoder_' = detectFailedEncoderCandidate(
                                     last_received_encoders_.v,
                                     last_received_drive_.v).candidate)]_vars

\* front_right is latched and a later cycle has evaluated a clean reading.
C10_Witness ==
    /\ failed_encoder_ = 1 /\ wd.ran
    /\ last_received_encoders_.present /\ last_received_drive_.present
    /\ ~detectFailedEncoderCandidate(last_received_encoders_.v, last_received_drive_.v).found
    /\ time_of_last_nonsuspect_encoders_ = last_received_encoders_.stamp

\* C11 as stated: once failed_encoder_ is set, no step changes it to another
\* value.
C11_FirstLatchWins ==
    [][failed_encoder_ # NoFailedEncoder => failed_encoder_' = failed_encoder_]_vars

\* C12 as stated: failed_encoder_ becomes set only when the evaluated
\* feedback's stamp exceeds by more than fault_time_to_failure the stamp of
\* the last clean sample that arrived while a command was present, however
\* the arrivals interleave with the watchdog cycles.
C12_CleanSampleResets ==
    [][failed_encoder_ = NoFailedEncoder /\ failed_encoder_' # NoFailedEncoder =>
          last_received_encoders_.stamp - last_clean_sample_stamp
              > encoder_fault_time_to_failure]_vars

\* Feedback and command are both present and not older than encoders_timeout.
BothFresh ==
    /\ last_received_encoders_.present
    /\ age(now, last_received_encoders_) <= encoders_timeout
    /\ last_received_drive_.present
    /\ age(now, last_received_drive_) <= encoders_timeout

\* C13 as stated: in a cycle with fresh feedback and command, ok() returned
\* false if and only if failed_encoder_ is set.
C13_OkIffNoLatch ==
    wd.ran /\ BothFresh => (wd.encoders_ok <=> failed_encoder_ = NoFailedEncoder)

\* C14: ok() returns false when feedback is absent or older than
\* encoders_timeout; otherwise it returns true when the command is absent or
\* older than encoders_timeout, whatever the feedback values.
C14_StalenessAndGrace ==
    wd.ran =>
        /\ (\/ ~last_received_encoders_.present
            \/ age(now, last_received_encoders_) > encoders_timeout) => ~wd.encoders_ok
        /\ (/\ last_received_encoders_.present
            /\ age(now, last_received_encoders_) <= encoders_timeout
            /\ (\/ ~last_received_drive_.present
                \/ age(now, last_received_drive_) > encoders_timeout)) => wd.encoders_ok

\* A cycle found ok() true on fresh feedback that shows a dead wheel against
\* a stale moving command.
C14_Witness ==
    /\ wd.ran /\ wd.encoders_ok
    /\ last_received_encoders_.present
    /\ age(now, last_received_encoders_) <= encoders_timeout
    /\ last_received_drive_.present
    /\ age(now, last_received_drive_) > encoders_timeout
    /\ detectFailedEncoderCandidate(last_received_encoders_.v, last_received_drive_.v).found

\* C15: a cycle that reaches the Starting block in Starting with encoders_ok
\* false, motor_ok false or the estop-latched bit set ends neither in Moving
\* nor in Starting.
C15_StartingPriority ==
    [][/\ wd'.ran
       /\ StoppedStep(state_, now, last_commanded_movement_time_,
                      isEstopped(last_mcu_status_)) = "Starting"
       /\ (\/ ~wd'.encoders_ok \/ ~wd'.motor_controllers_ok
           \/ isEstopped(last_mcu_status_))
       => state_' \notin {"Moving", "Starting"}]_vars

\* A cycle past the Starting deadline, before any command was passed through
\* in Moving, ended in PendingStopped on a motor controller failure.
C15_Witness ==
    /\ wd.ran /\ state_ = "PendingStopped"
    /\ ~wd.motor_controllers_ok /\ wd.encoders_ok
    /\ ~isEstopped(last_mcu_status_)
    /\ transition_to_moving_time_ > 0 /\ now > transition_to_moving_time_
    /\ now - last_commanded_movement_time_ <= CommandFresh
    /\ \A w \in Wheels : ~accel_limiters_[w].init

\* C16: whenever failed_encoder_ is set the safety state is Fault.
C16_LatchImpliesFault ==
    failed_encoder_ # NoFailedEncoder => state_ = "Fault"

\* An encoder failure is latched and the machine is in Fault for it.
C16_Witness ==
    /\ failed_encoder_ # NoFailedEncoder
    /\ state_ = "Fault" /\ fault_reason_ = EncoderReason

\* C17: a cycle that ends in Moving found encoders_ok and motor_ok true; one
\* that ends in Starting found them true and the estop-latched bit clear; and
\* neither ends so when no feedback was ever received.
C17_HealthyWhenEnabled ==
    wd.ran =>
        /\ state_ = "Moving" => wd.encoders_ok /\ wd.motor_controllers_ok
        /\ state_ = "Starting" =>
               /\ wd.encoders_ok /\ wd.motor_controllers_ok
               /\ ~isEstopped(last_mcu_status_)
        /\ state_ \in {"Starting", "Moving"} => last_received_encoders_.present

\* A cycle that began in Moving ended in Moving.
C17_Witness ==
    /\ wd.ran /\ state_ = "Moving"
    /\ wd.encoders_ok /\ wd.motor_controllers_ok
    /\ \E w \in Wheels : accel_limiters_[w].init

\* C18 as stated: failed_encoder_ becomes set only after a clean reading has
\* been evaluated (time_of_last_nonsuspect_encoders_ holds its stamp, and
\* stamps are positive) and the feedback's stamp exceeds it by more than
\* fault_time_to_failure.
C18_LatchAfterCleanReading ==
    [][failed_encoder_ = NoFailedEncoder /\ failed_encoder_' # NoFailedEncoder =>
          /\ time_of_last_nonsuspect_encoders_ > 0
          /\ last_received_encoders_.stamp - time_of_last_nonsuspect_encoders_
                 > encoder_fault_time_to_failure]_vars

\* C19 as stated: a cycle enters Fault with the precharge reason only if the
\* latest status has the precharge bit set and its stamp exceeds by more than
\* 4.0 s the stamp of the last status observed with the bit clear, or, when
\* none was observed, the stamp of the first status (never before StartTime).
C19_PrechargeAfterPersistence ==
    [][/\ wd'.ran /\ state_ # "Fault"
       /\ state_' = "Fault" /\ fault_reason_' = PrechargeReason
       => /\ last_mcu_status_.present /\ last_mcu_status_.brk_det
          /\ last_mcu_status_.stamp
                 - (IF last_clear_status_stamp > 0 THEN last_clear_status_stamp
                                                   ELSE StartTime)
                 > PrechargeLimit]_vars

\* The safe drive command emitted last: the one still queued on
\* safe_cmd_drive, else the one delivered last.
PreviousSafe == IF safe_cmd_drive.present THEN safe_cmd_drive ELSE last_received_drive_

\* C20 as stated: a safe drive command emitted in Moving differs, on every
\* wheel whose limiter has produced an output before, from the safe drive
\* command emitted just before it by at most max_rate times the difference of
\* their stamps.
C20_RampOnEmitted ==
    [][safe_pub'.present /\ state_ = "Moving" /\ PreviousSafe.present =>
          \A w \in Wheels :
              accel_limiters_[w].init =>
                  Abs(safe_pub'.v[w] - PreviousSafe.v[w])
                      <= MaxRate * (safe_pub'.stamp - PreviousSafe.stamp)]_vars

====
